---- MODULE Spec2Model ----
(***************************************************************************)
(* The Navigation block's edit component                                   *)
(* (packages/block-library/src/navigation/edit.js) as a state machine:     *)
(* the component-local state (placeholder flag, detected colors), the      *)
(* props derived by withSelect / withDispatch, the onCreate handler, the   *)
(* color-detection effect and the DOM walk of detectColors.                *)
(***************************************************************************)
EXTENDS Naturals, Sequences, FiniteSets, TLC

VARIABLES
    innerBlocks,                  \* select( blockEditorStore ).getBlocks( clientId )
    selectedBlockClientId,        \* the editor's selection
    attributes,                   \* [orientation, itemsJustification]
    hasItemJustificationControls, \* prop, fixed at mount
    platformOS,                   \* Platform.OS
    dom,                          \* ancestry chain of elements, deepest first
    isPlaceholderShown,           \* useState( ! hasExistingNavItems )
    detected,                     \* the four detected-color useState slots
    effectPending,                \* a render was committed, its effect has not run yet
    lastOp,                       \* the step taken last, with its inputs
    calls,                        \* callbacks / dispatches made by the last step, in order
    styleReads,                   \* nodes whose backgroundColor the last step read, in order
    returned,                     \* what updateInnerBlocks returned in the last step
    mountedWithItems,             \* hasExistingNavItems at mount
    onCreateCalled                \* onCreate has been called since mount

vars == << innerBlocks, selectedBlockClientId, attributes,
           hasItemJustificationControls, platformOS, dom, isPlaceholderShown,
           detected, effectPending, lastOp, calls, styleReads, returned,
           mountedWithItems, onCreateCalled >>

-----------------------------------------------------------------------------
(* Bounds *)

MaxChildren == 2       \* longest list of child blocks
MaxDomDepth == 2       \* longest ancestry chain in the component specifications
MaxWalkDepth == 3      \* longest ancestry chain in the detectColors specification

-----------------------------------------------------------------------------
(* Values *)

Undefined == "undefined"
clientId == "nav"
OtherBlock == "other"

Transparent == "rgba(0, 0, 0, 0)"
White == "rgb(255, 255, 255)"
Black == "rgb(0, 0, 0)"

ELEMENT_NODE == 1
DOCUMENT_NODE == 9

Range(s) == { s[i] : i \in 1..Len(s) }

\* The candidate child blocks: a plain link, a submenu with one item and a
\* submenu with two items.
ChildBlocks ==
    { [ clientId |-> "a", innerBlocks |-> << >> ],
      [ clientId |-> "b", innerBlocks |-> << [ clientId |-> "s1" ] >> ],
      [ clientId |-> "c", innerBlocks |-> << [ clientId |-> "s2" ],
                                             [ clientId |-> "s3" ] >> ] }

SeqsUpTo(S, n) == UNION { [ 1..k -> S ] : k \in 0..n }

\* Lists of distinct child blocks (client ids are unique in the block tree).
BlockLists ==
    { l \in SeqsUpTo(ChildBlocks, MaxChildren) :
        \A i, j \in 1..Len(l) : i # j => l[i] # l[j] }

-----------------------------------------------------------------------------
(* The DOM: a chain of elements; node i's parentNode is node i + 1, and the  *)
(* parentNode of the topmost element is the document node.                   *)

NullNode == 0

parentNode(d, n) ==
    IF n \in 1..Len(d) THEN n + 1 ELSE NullNode

nodeType(d, n) ==
    IF n \in 1..Len(d) THEN ELEMENT_NODE ELSE DOCUMENT_NODE

getBlockDOMNode(id, d) ==
    LET want == "block-" \o id
    IN  IF \E n \in 1..Len(d) : d[n].id = want
        THEN CHOOSE n \in 1..Len(d) : d[n].id = want
        ELSE NullNode

getComputedStyle(d, n) ==
    [ color |-> d[n].color, backgroundColor |-> d[n].backgroundColor ]

\* The while loop of detectColors: the nodes read, in order, starting at n.
RECURSIVE BackgroundWalk(_, _)
BackgroundWalk(d, n) ==
    LET backgroundColor == getComputedStyle(d, n).backgroundColor
    IN  IF /\ backgroundColor = Transparent
           /\ parentNode(d, n) # NullNode
           /\ nodeType(d, parentNode(d, n)) = ELEMENT_NODE
        THEN << n >> \o BackgroundWalk(d, parentNode(d, n))
        ELSE << n >>

\* Faulty variant: the color callback is invoked twice.
DetectColorsDoubleSetColor(d, id, setColor, setBackground) ==
    LET colorsDetectionElement == getBlockDOMNode(id, d)
        walk == BackgroundWalk(d, colorsDetectionElement)
        c == getComputedStyle(d, colorsDetectionElement).color
    IN  IF colorsDetectionElement = NullNode
        THEN [ calls |-> << >>, reads |-> << >> ]
        ELSE [ calls |->
                 << [ fn |-> setColor, args |-> << c >> ],
                    [ fn |-> setColor, args |-> << c >> ],
                    [ fn |-> setBackground,
                      args |-> << getComputedStyle(d, walk[Len(walk)]).backgroundColor >> ] >>,
               reads |-> walk ]

\* Faulty variant: the node's own background is reported, without the walk.
DetectColorsNoWalk(d, id, setColor, setBackground) ==
    LET colorsDetectionElement == getBlockDOMNode(id, d)
    IN  IF colorsDetectionElement = NullNode
        THEN [ calls |-> << >>, reads |-> << >> ]
        ELSE [ calls |->
                 << [ fn |-> setColor,
                      args |-> << getComputedStyle(d, colorsDetectionElement).color >> ],
                    [ fn |-> setBackground,
                      args |-> << getComputedStyle(d, colorsDetectionElement).backgroundColor >> ] >>,
               reads |-> << colorsDetectionElement >> ]

\* Faulty variant: a missing node is not skipped.
DetectColorsNoNullCheck(d, id, setColor, setBackground) ==
    LET colorsDetectionElement == getBlockDOMNode(id, d)
    IN  IF colorsDetectionElement = NullNode
        THEN [ calls |-> << [ fn |-> setColor, args |-> << Undefined >> ],
                            [ fn |-> setBackground, args |-> << Undefined >> ] >>,
               reads |-> << >> ]
        ELSE DetectColorsNoWalk(d, id, setColor, setBackground)

\* detectColors( clientId, setColor, setBackground ): the callbacks it
\* invokes, in order, and the nodes whose background it read.
detectColors(d, id, setColor, setBackground) ==
    LET colorsDetectionElement == getBlockDOMNode(id, d)
        walk == BackgroundWalk(d, colorsDetectionElement)
    IN  IF colorsDetectionElement = NullNode
        THEN [ calls |-> << >>, reads |-> << >> ]
        ELSE [ calls |->
                 << [ fn |-> setColor,
                      args |-> << getComputedStyle(d, colorsDetectionElement).color >> ],
                    [ fn |-> setBackground,
                      args |-> << getComputedStyle(d, walk[Len(walk)]).backgroundColor >> ] >>,
               reads |-> walk ]

-----------------------------------------------------------------------------
(* withSelect: the props derived from the block store *)

\* innerBlocks.find( ( b ) => b.innerBlocks.length ): the index of the first
\* child that has inner blocks, 0 when find returns undefined.
RECURSIVE FindSubmenu(_, _)
FindSubmenu(blocks, i) ==
    IF i > Len(blocks) THEN 0
    ELSE IF Len(blocks[i].innerBlocks) # 0 THEN i
    ELSE FindSubmenu(blocks, i + 1)

\* Faulty variant: the last inner block of the last submenu is taken.
SubMenuClientIdLast(blocks) ==
    LET hits == { i \in 1..Len(blocks) : Len(blocks[i].innerBlocks) # 0 }
    IN  IF hits = {} THEN Undefined
        ELSE LET b == blocks[CHOOSE i \in hits : \A j \in hits : i >= j]
             IN  b.innerBlocks[Len(b.innerBlocks)].clientId

\* innerBlocks.find( ... )?.innerBlocks[ 0 ]?.clientId
subMenuClientId(blocks) ==
    LET found == FindSubmenu(blocks, 1)
    IN  IF found = 0 THEN Undefined
        ELSE blocks[found].innerBlocks[1].clientId

\* !! innerBlocks.length
hasExistingNavItems(blocks) == Len(blocks) # 0

-----------------------------------------------------------------------------
(* withDispatch: updateInnerBlocks *)

\* Faulty variant: an empty list is dispatched like any other.
UpdateInnerBlocksNoGuard(blocks) ==
    [ ret |-> Undefined,
      calls |-> << [ fn |-> "replaceInnerBlocks",
                     args |-> << clientId, blocks, TRUE >> ] >> ]

\* What updateInnerBlocks( blocks ) returns and what it dispatches, for a list
\* of blocks: blocks?.length === 0 is Len(blocks) = 0.
updateInnerBlocks(blocks) ==
    IF Len(blocks) = 0
    THEN [ ret |-> "false", calls |-> << >> ]
    ELSE [ ret |-> Undefined,
           calls |-> << [ fn |-> "replaceInnerBlocks",
                          args |-> << clientId, blocks, TRUE >> ] >> ]

-----------------------------------------------------------------------------
(* The placeholder's onCreate handler *)

\* Faulty variant: the placeholder flag is never cleared.
OnCreateNoHide(blocks, selectNavigationBlock) ==
    updateInnerBlocks(blocks).calls
    \o ( IF selectNavigationBlock
         THEN << [ fn |-> "selectBlock", args |-> << clientId >> ] >>
         ELSE << >> )

\* Faulty variant: the selection is moved before the children are replaced.
OnCreateSelectFirst(blocks, selectNavigationBlock) ==
    << [ fn |-> "setIsPlaceholderShown", args |-> << FALSE >> ] >>
    \o ( IF selectNavigationBlock
         THEN << [ fn |-> "selectBlock", args |-> << clientId >> ] >>
         ELSE << >> )
    \o updateInnerBlocks(blocks).calls

\* Faulty variant: an empty list leaves the placeholder shown.
OnCreateKeepPlaceholder(blocks, selectNavigationBlock) ==
    ( IF Len(blocks) = 0
      THEN << >>
      ELSE << [ fn |-> "setIsPlaceholderShown", args |-> << FALSE >> ] >> )
    \o updateInnerBlocks(blocks).calls
    \o ( IF selectNavigationBlock
         THEN << [ fn |-> "selectBlock", args |-> << clientId >> ] >>
         ELSE << >> )

\* The calls onCreate( blocks, selectNavigationBlock ) makes, in order.
onCreate(blocks, selectNavigationBlock) ==
    << [ fn |-> "setIsPlaceholderShown", args |-> << FALSE >> ] >>
    \o updateInnerBlocks(blocks).calls
    \o ( IF selectNavigationBlock
         THEN << [ fn |-> "selectBlock", args |-> << clientId >> ] >>
         ELSE << >> )

\* The block store's reaction to one dispatched action.  replaceInnerBlocks is
\* dispatched with updateSelection = true: the store may then move the
\* selection onto the first new block (moveSelection) or leave it.
ReduceStore(st, call, moveSelection) ==
    IF call.fn = "replaceInnerBlocks" /\ call.args[1] = clientId
    THEN [ innerBlocks |-> call.args[2],
           selected |-> IF call.args[3] /\ moveSelection /\ Len(call.args[2]) # 0
                        THEN call.args[2][1].clientId
                        ELSE st.selected ]
    ELSE IF call.fn = "selectBlock"
    THEN [ st EXCEPT !.selected = call.args[1] ]
    ELSE st

RECURSIVE ApplyDispatches(_, _, _)
ApplyDispatches(st, cs, moveSelection) ==
    IF cs = << >> THEN st
    ELSE ApplyDispatches(ReduceStore(st, Head(cs), moveSelection), Tail(cs),
                         moveSelection)

\* The useState setter for the placeholder flag, applied to a call list.
RECURSIVE ApplyPlaceholderSetter(_, _)
ApplyPlaceholderSetter(shown, cs) ==
    IF cs = << >> THEN shown
    ELSE ApplyPlaceholderSetter(
             IF Head(cs).fn = "setIsPlaceholderShown" THEN Head(cs).args[1]
             ELSE shown,
             Tail(cs))

-----------------------------------------------------------------------------
(* The color-detection effect *)

enableContrastChecking(os) == os = "web"

NoDetection == [ calls |-> << >>, reads |-> << >> ]

\* Faulty variant: the platform is not checked.
EffectIgnoringPlatform(d, blocks, os) ==
    LET main == detectColors(d, clientId, "setDetectedColor",
                             "setDetectedBackgroundColor")
        sub == IF subMenuClientId(blocks) # Undefined
               THEN detectColors(d, subMenuClientId(blocks),
                                 "setDetectedOverlayColor",
                                 "setDetectedOverlayBackgroundColor")
               ELSE NoDetection
    IN  [ calls |-> main.calls \o sub.calls, reads |-> main.reads \o sub.reads ]

\* The body of useEffect: the setters it invokes and the nodes it reads.
Effect(d, blocks, os) ==
    IF ~ enableContrastChecking(os)
    THEN NoDetection
    ELSE LET main == detectColors(d, clientId, "setDetectedColor",
                                  "setDetectedBackgroundColor")
             sub == IF subMenuClientId(blocks) # Undefined
                    THEN detectColors(d, subMenuClientId(blocks),
                                      "setDetectedOverlayColor",
                                      "setDetectedOverlayBackgroundColor")
                    ELSE NoDetection
         IN  [ calls |-> main.calls \o sub.calls,
               reads |-> main.reads \o sub.reads ]

NoColors ==
    [ detectedBackgroundColor |-> Undefined,
      detectedColor |-> Undefined,
      detectedOverlayBackgroundColor |-> Undefined,
      detectedOverlayColor |-> Undefined ]

SetDetected(det, call) ==
    IF call.fn = "setDetectedColor"
    THEN [ det EXCEPT !.detectedColor = call.args[1] ]
    ELSE IF call.fn = "setDetectedBackgroundColor"
    THEN [ det EXCEPT !.detectedBackgroundColor = call.args[1] ]
    ELSE IF call.fn = "setDetectedOverlayColor"
    THEN [ det EXCEPT !.detectedOverlayColor = call.args[1] ]
    ELSE IF call.fn = "setDetectedOverlayBackgroundColor"
    THEN [ det EXCEPT !.detectedOverlayBackgroundColor = call.args[1] ]
    ELSE det

RECURSIVE ApplySetters(_, _)
ApplySetters(det, cs) ==
    IF cs = << >> THEN det
    ELSE ApplySetters(SetDetected(det, Head(cs)), Tail(cs))

-----------------------------------------------------------------------------
(* The render output *)

\* Faulty variant: the orientation is not checked.
JustifyAllowedControlsAlways(attrs) ==
    << "left", "center", "right", "space-between" >>

justifyAllowedControls(attrs) ==
    IF attrs.orientation = "vertical"
    THEN << "left", "center", "right" >>
    ELSE << "left", "center", "right", "space-between" >>

\* What Navigation returns for the given state and props.
Render(shown, attrs, justifyControls, os, det) ==
    IF shown
    THEN [ view |-> "placeholder",
           justifyToolbar |-> FALSE,
           justifyValue |-> Undefined,
           allowedControls |-> << >>,
           contrastCheckers |-> << >> ]
    ELSE [ view |-> "populated",
           justifyToolbar |-> justifyControls,
           justifyValue |-> IF justifyControls THEN attrs.itemsJustification
                            ELSE Undefined,
           allowedControls |-> IF justifyControls THEN justifyAllowedControls(attrs)
                               ELSE << >>,
           contrastCheckers |->
               IF enableContrastChecking(os)
               THEN << [ backgroundColor |-> det.detectedBackgroundColor,
                         textColor |-> det.detectedColor ],
                       [ backgroundColor |-> det.detectedOverlayBackgroundColor,
                         textColor |-> det.detectedOverlayColor ] >>
               ELSE << >> ]

Output ==
    Render(isPlaceholderShown, attributes, hasItemJustificationControls,
           platformOS, detected)

-----------------------------------------------------------------------------
(* Steps *)

NoOp == [ op |-> "other" ]

\* The placeholder calls onCreate( blocks, selectNavigationBlock ).  The
\* placeholder exists only while the placeholder view is rendered.
OnCreate(blocks, selectNavigationBlock, moveSelection) ==
    /\ isPlaceholderShown
    /\ ~ effectPending
    /\ LET cs == onCreate(blocks, selectNavigationBlock)
           st == ApplyDispatches([ innerBlocks |-> innerBlocks,
                                   selected |-> selectedBlockClientId ],
                                 cs, moveSelection)
       IN  /\ isPlaceholderShown' = ApplyPlaceholderSetter(isPlaceholderShown, cs)
           /\ innerBlocks' = st.innerBlocks
           /\ selectedBlockClientId' = st.selected
           /\ calls' = cs
    /\ returned' = updateInnerBlocks(blocks).ret
    /\ lastOp' = [ op |-> "onCreate", blocks |-> blocks,
                   selectNavigationBlock |-> selectNavigationBlock ]
    /\ onCreateCalled' = TRUE
    /\ effectPending' = TRUE
    /\ styleReads' = << >>
    /\ UNCHANGED << attributes, hasItemJustificationControls, platformOS, dom,
                    detected, mountedWithItems >>

\* Another part of the editor appends a child block to this block.
InsertBlock(b) ==
    /\ ~ effectPending
    /\ Len(innerBlocks) < MaxChildren
    /\ b \notin Range(innerBlocks)
    /\ innerBlocks' = Append(innerBlocks, b)
    /\ effectPending' = TRUE
    /\ lastOp' = NoOp
    /\ calls' = << >>
    /\ styleReads' = << >>
    /\ returned' = Undefined
    /\ UNCHANGED << selectedBlockClientId, attributes,
                    hasItemJustificationControls, platformOS, dom,
                    isPlaceholderShown, detected, mountedWithItems,
                    onCreateCalled >>

\* Another part of the editor removes the child block at index i.
RemoveBlock(i) ==
    /\ ~ effectPending
    /\ i \in 1..Len(innerBlocks)
    /\ innerBlocks' = SubSeq(innerBlocks, 1, i - 1)
                          \o SubSeq(innerBlocks, i + 1, Len(innerBlocks))
    /\ effectPending' = TRUE
    /\ lastOp' = NoOp
    /\ calls' = << >>
    /\ styleReads' = << >>
    /\ returned' = Undefined
    /\ UNCHANGED << selectedBlockClientId, attributes,
                    hasItemJustificationControls, platformOS, dom,
                    isPlaceholderShown, detected, mountedWithItems,
                    onCreateCalled >>

\* The user selects another block of the document.
SelectElsewhere ==
    /\ ~ effectPending
    /\ selectedBlockClientId # OtherBlock
    /\ selectedBlockClientId' = OtherBlock
    /\ effectPending' = TRUE
    /\ lastOp' = NoOp
    /\ calls' = << >>
    /\ styleReads' = << >>
    /\ returned' = Undefined
    /\ UNCHANGED << innerBlocks, attributes, hasItemJustificationControls,
                    platformOS, dom, isPlaceholderShown, detected,
                    mountedWithItems, onCreateCalled >>

\* JustifyToolbar onChange: setAttributes( { itemsJustification: value } ).
\* The toolbar exists only in the populated view, and offers its allowed
\* controls (choosing the active one again clears the value).
JustifyOnChange(value) ==
    /\ ~ effectPending
    /\ Output.justifyToolbar
    /\ value \in Range(Output.allowedControls) \cup { Undefined }
    /\ attributes' = [ attributes EXCEPT !.itemsJustification = value ]
    /\ effectPending' = TRUE
    /\ lastOp' = NoOp
    /\ calls' = << [ fn |-> "setAttributes", args |-> << value >> ] >>
    /\ styleReads' = << >>
    /\ returned' = Undefined
    /\ UNCHANGED << innerBlocks, selectedBlockClientId,
                    hasItemJustificationControls, platformOS, dom,
                    isPlaceholderShown, detected, mountedWithItems,
                    onCreateCalled >>

\* The orientation attribute changes (it has no control in this component).
SetOrientation(o) ==
    /\ ~ effectPending
    /\ o # attributes.orientation
    /\ attributes' = [ attributes EXCEPT !.orientation = o ]
    /\ effectPending' = TRUE
    /\ lastOp' = NoOp
    /\ calls' = << >>
    /\ styleReads' = << >>
    /\ returned' = Undefined
    /\ UNCHANGED << innerBlocks, selectedBlockClientId,
                    hasItemJustificationControls, platformOS, dom,
                    isPlaceholderShown, detected, mountedWithItems,
                    onCreateCalled >>

\* blockProps.style: the text and background color slots are the inline
\* color and backgroundColor of the block's own element.
StyleWithSlot(d, slot, color) ==
    LET n == getBlockDOMNode(clientId, d)
    IN  IF n = NullNode THEN d
        ELSE IF slot = "textColor" THEN [ d EXCEPT ![n].color = color ]
        ELSE IF slot = "backgroundColor"
        THEN [ d EXCEPT ![n].backgroundColor = color ]
        ELSE d

\* PanelColorSettings onChange of one of the four color slots; the panel
\* exists only in the populated view.
SetColorSlot(slot, color) ==
    /\ ~ effectPending
    /\ ~ isPlaceholderShown
    /\ dom' = StyleWithSlot(dom, slot, color)
    /\ effectPending' = TRUE
    /\ lastOp' = NoOp
    /\ calls' = << >>
    /\ styleReads' = << >>
    /\ returned' = Undefined
    /\ UNCHANGED << innerBlocks, selectedBlockClientId, attributes,
                    hasItemJustificationControls, platformOS,
                    isPlaceholderShown, detected, mountedWithItems,
                    onCreateCalled >>

\* The useEffect callback runs after the committed render.  A setter called
\* with a new value schedules another render, and with it another effect.
RunEffect ==
    /\ effectPending
    /\ LET e == Effect(dom, innerBlocks, platformOS)
       IN  /\ detected' = ApplySetters(detected, e.calls)
           /\ calls' = e.calls
           /\ styleReads' = e.reads
    /\ effectPending' = (detected' # detected)
    /\ lastOp' = [ op |-> "effect" ]
    /\ returned' = Undefined
    /\ UNCHANGED << innerBlocks, selectedBlockClientId, attributes,
                    hasItemJustificationControls, platformOS, dom,
                    isPlaceholderShown, mountedWithItems, onCreateCalled >>

\* The parent re-renders the component with unchanged props.
Rerender ==
    /\ ~ effectPending
    /\ effectPending' = TRUE
    /\ lastOp' = NoOp
    /\ calls' = << >>
    /\ styleReads' = << >>
    /\ returned' = Undefined
    /\ UNCHANGED << innerBlocks, selectedBlockClientId, attributes,
                    hasItemJustificationControls, platformOS, dom,
                    isPlaceholderShown, detected, mountedWithItems,
                    onCreateCalled >>

-----------------------------------------------------------------------------
(* The DOM as the environment changes it *)

TextColors == { White, Black }
Backgrounds == { Transparent, White, Black }
SlotColors == { White, Black }
ColorSlots == { "textColor", "backgroundColor", "overlayTextColor",
                "overlayBackgroundColor" }

SubmenuNodeIds == { "block-s1", "block-s2" }
NodeIds == { "", "block-" \o clientId } \cup SubmenuNodeIds
PageBackgrounds == { Transparent, White }

DomChange(d) ==
    /\ dom' = d
    /\ lastOp' = NoOp
    /\ calls' = << >>
    /\ styleReads' = << >>
    /\ returned' = Undefined
    /\ UNCHANGED << innerBlocks, selectedBlockClientId, attributes,
                    hasItemJustificationControls, platformOS,
                    isPlaceholderShown, detected, effectPending,
                    mountedWithItems, onCreateCalled >>

\* An element is mounted below the deepest one.  Ids are unique, and the
\* element of a submenu item lies inside the element of this block.
DomMount(id, color, backgroundColor) ==
    /\ Len(dom) < MaxDomDepth
    /\ id # "" => \A n \in 1..Len(dom) : dom[n].id # id
    /\ id \in SubmenuNodeIds =>
          /\ getBlockDOMNode(clientId, dom) # NullNode
          /\ \A n \in 1..Len(dom) : dom[n].id \notin SubmenuNodeIds
    /\ DomChange(<< [ id |-> id, color |-> color,
                      backgroundColor |-> backgroundColor ] >> \o dom)

\* The deepest element is unmounted.
DomUnmount ==
    /\ Len(dom) > 0
    /\ DomChange(Tail(dom))

\* The stylesheet changes the background of element n.
DomRestyle(n, backgroundColor) ==
    /\ n \in 1..Len(dom)
    /\ dom[n].backgroundColor # backgroundColor
    /\ DomChange([ dom EXCEPT ![n].backgroundColor = backgroundColor ])

-----------------------------------------------------------------------------
(* Specifications *)

Orientations == { Undefined, "horizontal", "vertical" }
Justifications == { Undefined, "left", "center", "right", "space-between" }
Platforms == { "web", "ios" }

\* The block's own element on a white page.
PageDom ==
    << [ id |-> "block-" \o clientId, color |-> Black,
         backgroundColor |-> Transparent ],
       [ id |-> "", color |-> Black, backgroundColor |-> White ] >>

\* Mount: useState initial values.
Mount ==
    /\ isPlaceholderShown = ~ hasExistingNavItems(innerBlocks)
    /\ mountedWithItems = hasExistingNavItems(innerBlocks)
    /\ detected = NoColors
    /\ effectPending = TRUE
    /\ lastOp = [ op |-> "mount" ]
    /\ calls = << >>
    /\ styleReads = << >>
    /\ returned = Undefined
    /\ onCreateCalled = FALSE

Init ==
    /\ innerBlocks \in BlockLists
    /\ selectedBlockClientId \in { clientId, OtherBlock }
    /\ attributes \in [ orientation : Orientations,
                        itemsJustification : Justifications ]
    /\ hasItemJustificationControls \in BOOLEAN
    /\ platformOS \in Platforms
    /\ dom = PageDom
    /\ Mount

Next ==
    \/ \E blocks \in BlockLists, selectNavigationBlock \in BOOLEAN,
          moveSelection \in BOOLEAN :
            OnCreate(blocks, selectNavigationBlock, moveSelection)
    \/ \E b \in ChildBlocks : InsertBlock(b)
    \/ \E i \in 1..MaxChildren : RemoveBlock(i)
    \/ SelectElsewhere
    \/ \E value \in Justifications : JustifyOnChange(value)
    \/ \E o \in Orientations : SetOrientation(o)
    \/ \E slot \in ColorSlots, color \in SlotColors : SetColorSlot(slot, color)
    \/ Rerender
    \/ RunEffect

Spec == Init /\ [][Next]_vars

\* The color-detection effect against a changing DOM; the attributes, the
\* selection and the feature flag stay as mounted.
InitEffect ==
    /\ innerBlocks \in BlockLists
    /\ selectedBlockClientId = OtherBlock
    /\ attributes = [ orientation |-> Undefined, itemsJustification |-> Undefined ]
    /\ hasItemJustificationControls = TRUE
    /\ platformOS \in Platforms
    /\ dom = << >>
    /\ Mount

NextEffect ==
    \/ \E b \in ChildBlocks : InsertBlock(b)
    \/ \E i \in 1..MaxChildren : RemoveBlock(i)
    \/ \E id \in NodeIds, color \in TextColors, backgroundColor \in PageBackgrounds :
            DomMount(id, color, backgroundColor)
    \/ DomUnmount
    \/ \E n \in 1..MaxDomDepth, backgroundColor \in PageBackgrounds :
            DomRestyle(n, backgroundColor)
    \/ Rerender
    \/ RunEffect

SpecEffect == InitEffect /\ [][NextEffect]_vars

\* detectColors alone, on every well-formed ancestry chain.
WellFormed(d) ==
    /\ \A i, j \in 1..Len(d) : ( i # j /\ d[i].id # "" ) => d[i].id # d[j].id
    /\ \A i \in 1..Len(d) :
          d[i].id \in SubmenuNodeIds =>
              /\ \E j \in (i + 1)..Len(d) : d[j].id = "block-" \o clientId
              /\ \A j \in 1..Len(d) : ( j # i ) => d[j].id \notin SubmenuNodeIds

Elements == [ id : NodeIds, color : TextColors, backgroundColor : Backgrounds ]

Chains == { d \in SeqsUpTo(Elements, MaxWalkDepth) : WellFormed(d) }

DetectTargets == { clientId, "s1", "s2" }

InitDetect ==
    /\ innerBlocks = << >>
    /\ selectedBlockClientId = OtherBlock
    /\ attributes = [ orientation |-> Undefined, itemsJustification |-> Undefined ]
    /\ hasItemJustificationControls = TRUE
    /\ platformOS = "web"
    /\ dom \in Chains
    /\ Mount

\* detectColors( id, setColor, setBackground ) is called on the current DOM.
Detect(id) ==
    /\ LET r == detectColors(dom, id, "setColor", "setBackground")
       IN  /\ calls' = r.calls
           /\ styleReads' = r.reads
    /\ lastOp' = [ op |-> "detectColors", clientId |-> id ]
    /\ UNCHANGED << innerBlocks, selectedBlockClientId, attributes,
                    hasItemJustificationControls, platformOS, dom,
                    isPlaceholderShown, detected, effectPending, returned,
                    mountedWithItems, onCreateCalled >>

NextDetect == \E id \in DetectTargets : Detect(id)

SpecDetect == InitDetect /\ [][NextDetect]_vars

-----------------------------------------------------------------------------
(* Properties *)

CallsTo(fn) == Cardinality({ i \in 1..Len(calls) : calls[i].fn = fn })

CallNames == [ i \in 1..Len(calls) |-> calls[i].fn ]

ArgsOf(fn) == calls[CHOOSE i \in 1..Len(calls) : calls[i].fn = fn].args

NavNode == getBlockDOMNode(clientId, dom)

SubMenuNode ==
    IF subMenuClientId(innerBlocks) = Undefined THEN NullNode
    ELSE getBlockDOMNode(subMenuClientId(innerBlocks), dom)

AfterOnCreate == lastOp.op = "onCreate"

AfterEffect == lastOp.op = "effect"

\* C1: a component mounted without child blocks shows the placeholder view;
\* right after onCreate was called with a non-empty list it shows the
\* populated view; and no step ever leads from the populated view back to
\* the placeholder view.
C1_PlaceholderNeverReturns ==
    /\ [] ( ( lastOp.op = "mount" /\ ~ hasExistingNavItems(innerBlocks) )
              => Output.view = "placeholder" )
    /\ [] ( ( AfterOnCreate /\ Len(lastOp.blocks) # 0 )
              => Output.view = "populated" )
    /\ [][ Output.view = "populated" => Output'.view = "populated" ]_vars

C1_Witness ==
    /\ AfterOnCreate
    /\ Len(lastOp.blocks) # 0
    /\ ~ mountedWithItems
    /\ Output.view = "populated"

\* C2: updateInnerBlocks with an empty list returns false, dispatches no
\* replaceInnerBlocks and leaves the children as they were; with a non-empty
\* list it dispatches exactly one replaceInnerBlocks, for this block's
\* clientId and with that list.
C2_UpdateInnerBlocksGuard ==
    /\ [] ( AfterOnCreate =>
              IF Len(lastOp.blocks) = 0
              THEN /\ returned = "false"
                   /\ CallsTo("replaceInnerBlocks") = 0
              ELSE /\ CallsTo("replaceInnerBlocks") = 1
                   /\ ArgsOf("replaceInnerBlocks")[1] = clientId
                   /\ ArgsOf("replaceInnerBlocks")[2] = lastOp.blocks )
    /\ [][ ( lastOp'.op = "onCreate" /\ Len(lastOp'.blocks) = 0 )
             => innerBlocks' = innerBlocks ]_vars

C2_Witness ==
    /\ AfterOnCreate
    /\ Len(lastOp.blocks) = 0
    /\ returned = "false"
    /\ Len(innerBlocks) # 0

\* The nodes from n upward whose background is not transparent.
OpaqueFrom(n) ==
    { j \in n..Len(dom) : dom[j].backgroundColor # Transparent }

Nearest(S) == CHOOSE j \in S : \A k \in S : j <= k

\* C3: detectColors on an existing node reports to setBackground the
\* background of the nearest node, from the node itself upward, that is not
\* transparent, reading the nodes up to that one and no further (only the
\* node itself when its own background is not transparent); when every node
\* up to the topmost element is transparent it reports the last value read,
\* the topmost element's background.
C3_NearestOpaqueBackground ==
    ( lastOp.op = "detectColors"
      /\ getBlockDOMNode(lastOp.clientId, dom) # NullNode ) =>
        LET n == getBlockDOMNode(lastOp.clientId, dom)
        IN  /\ CallsTo("setBackground") = 1
            /\ OpaqueFrom(n) # {} =>
                  /\ ArgsOf("setBackground")[1]
                        = dom[Nearest(OpaqueFrom(n))].backgroundColor
                  /\ styleReads
                        = [ i \in 1..(Nearest(OpaqueFrom(n)) - n + 1) |-> n + i - 1 ]
            /\ dom[n].backgroundColor # Transparent => styleReads = << n >>
            /\ OpaqueFrom(n) = {} =>
                  /\ ArgsOf("setBackground")[1] = Transparent
                  /\ styleReads[Len(styleReads)] = Len(dom)
                  /\ ArgsOf("setBackground")[1]
                        = dom[styleReads[Len(styleReads)]].backgroundColor

C3_Witness ==
    /\ lastOp.op = "detectColors"
    /\ getBlockDOMNode(lastOp.clientId, dom) = 1
    /\ Len(dom) = 3
    /\ dom[1].backgroundColor = Transparent
    /\ dom[2].backgroundColor = Transparent
    /\ dom[3].backgroundColor = Black
    /\ styleReads = << 1, 2, 3 >>
    /\ ArgsOf("setBackground")[1] = Black

\* C4: when the populated view is rendered with the justification control,
\* the control's allowed values are {left, center, right} for orientation
\* 'vertical' and {left, center, right, space-between} otherwise, and its
\* value is attributes.itemsJustification.
C4_JustifyControls ==
    ( Output.view = "populated" /\ hasItemJustificationControls ) =>
        /\ Output.justifyToolbar
        /\ attributes.orientation = "vertical" =>
              Range(Output.allowedControls) = { "left", "center", "right" }
        /\ attributes.orientation # "vertical" =>
              Range(Output.allowedControls)
                  = { "left", "center", "right", "space-between" }
        /\ Output.justifyValue = attributes.itemsJustification

C4_Witness ==
    /\ CallNames = << "setAttributes" >>
    /\ Output.view = "populated"
    /\ Output.justifyToolbar
    /\ attributes.orientation = "vertical"
    /\ attributes.itemsJustification = "center"
    /\ Output.allowedControls = << "left", "center", "right" >>
    /\ Output.justifyValue = "center"

\* C5: the contrast checkers are in the render output only when Platform.OS
\* is 'web'; on another platform they are absent, the effect invokes no
\* setter and the detected colors keep their initial values.
C5_ContrastCheckingWebOnly ==
    /\ Len(Output.contrastCheckers) # 0 => platformOS = "web"
    /\ platformOS # "web" =>
          /\ Len(Output.contrastCheckers) = 0
          /\ AfterEffect => Len(calls) = 0
          /\ detected = NoColors

C5_Witness ==
    /\ platformOS = "ios"
    /\ AfterEffect
    /\ Output.view = "populated"
    /\ NavNode # NullNode
    /\ SubMenuNode # NullNode
    /\ Len(calls) = 0

\* C6: detection for a clientId without a DOM node invokes neither setter and
\* leaves the detected values as they were; without a subMenuClientId the
\* effect runs no overlay detection, so the overlay values stay as they
\* were, while the main detection still runs.
C6_MissingNodeAndSubmenu ==
    /\ [] ( ( AfterEffect /\ platformOS = "web" ) =>
              /\ NavNode = NullNode =>
                    /\ CallsTo("setDetectedColor") = 0
                    /\ CallsTo("setDetectedBackgroundColor") = 0
              /\ SubMenuNode = NullNode =>
                    /\ CallsTo("setDetectedOverlayColor") = 0
                    /\ CallsTo("setDetectedOverlayBackgroundColor") = 0
              /\ ( subMenuClientId(innerBlocks) = Undefined /\ NavNode # NullNode ) =>
                    /\ CallsTo("setDetectedColor") = 1
                    /\ CallsTo("setDetectedBackgroundColor") = 1 )
    /\ [][ lastOp'.op = "effect" =>
             /\ NavNode = NullNode =>
                   /\ detected'.detectedColor = detected.detectedColor
                   /\ detected'.detectedBackgroundColor
                         = detected.detectedBackgroundColor
             /\ SubMenuNode = NullNode =>
                   /\ detected'.detectedOverlayColor = detected.detectedOverlayColor
                   /\ detected'.detectedOverlayBackgroundColor
                         = detected.detectedOverlayBackgroundColor ]_vars

C6_Witness ==
    /\ AfterEffect
    /\ platformOS = "web"
    /\ subMenuClientId(innerBlocks) = Undefined
    /\ NavNode # NullNode
    /\ CallNames = << "setDetectedColor", "setDetectedBackgroundColor" >>
    /\ detected.detectedOverlayColor # Undefined

\* C7 as claimed: the placeholder view is shown exactly when the block has no
\* child items, the populated view exactly when it has at least one.
C7_ViewFollowsChildren ==
    /\ Output.view = "placeholder" <=> ~ hasExistingNavItems(innerBlocks)
    /\ Output.view = "populated" <=> hasExistingNavItems(innerBlocks)

\* C7 amended: the placeholder view is shown exactly when the block had no
\* child items at mount and onCreate has not been called since; otherwise
\* the populated view is shown.
C7_PlaceholderUntilCreate ==
    /\ Output.view \in { "placeholder", "populated" }
    /\ Output.view = "placeholder" <=> ( ~ mountedWithItems /\ ~ onCreateCalled )

C7_Witness ==
    /\ Output.view = "populated"
    /\ ~ hasExistingNavItems(innerBlocks)
    /\ onCreateCalled
    /\ AfterOnCreate

\* C8 as claimed, for the calls and the children: onCreate hides the
\* placeholder first, the block's children are then the provided blocks, and
\* selectBlock( clientId ) is dispatched exactly when selectNavigationBlock
\* is truthy.
C8_ChildrenAlwaysReplaced ==
    AfterOnCreate =>
        /\ CallNames[1] = "setIsPlaceholderShown"
        /\ innerBlocks = lastOp.blocks
        /\ CallsTo("selectBlock") = 1 <=> lastOp.selectNavigationBlock

\* C8 amended: onCreate first hides the placeholder, then dispatches
\* replaceInnerBlocks( clientId, blocks, true ) when the list is not empty
\* (an empty list dispatches nothing and leaves the children as they were),
\* then dispatches selectBlock( clientId ) exactly when selectNavigationBlock
\* is truthy; with an empty list and a falsy selectNavigationBlock the
\* selection is unchanged.
C8_OnCreateSequence ==
    /\ [] ( AfterOnCreate =>
              /\ CallNames
                    = << "setIsPlaceholderShown" >>
                      \o ( IF Len(lastOp.blocks) # 0
                           THEN << "replaceInnerBlocks" >> ELSE << >> )
                      \o ( IF lastOp.selectNavigationBlock
                           THEN << "selectBlock" >> ELSE << >> )
              /\ ArgsOf("setIsPlaceholderShown") = << FALSE >>
              /\ ~ isPlaceholderShown
              /\ Len(lastOp.blocks) # 0 =>
                    /\ ArgsOf("replaceInnerBlocks")
                          = << clientId, lastOp.blocks, TRUE >>
                    /\ innerBlocks = lastOp.blocks
              /\ lastOp.selectNavigationBlock =>
                    /\ ArgsOf("selectBlock") = << clientId >>
                    /\ selectedBlockClientId = clientId )
    /\ [][ ( lastOp'.op = "onCreate" /\ Len(lastOp'.blocks) = 0 ) =>
             /\ innerBlocks' = innerBlocks
             /\ ~ lastOp'.selectNavigationBlock =>
                   selectedBlockClientId' = selectedBlockClientId ]_vars

C8_Witness ==
    /\ AfterOnCreate
    /\ Len(lastOp.blocks) # 0
    /\ ~ lastOp.selectNavigationBlock
    /\ CallNames = << "setIsPlaceholderShown", "replaceInnerBlocks" >>
    /\ innerBlocks = lastOp.blocks
    /\ selectedBlockClientId = OtherBlock

\* The children that have inner blocks.
Submenus == { i \in 1..Len(innerBlocks) : Len(innerBlocks[i].innerBlocks) # 0 }

\* C9: subMenuClientId is the clientId of the first inner block of the first
\* child that has inner blocks, and undefined when no child has any;
\* hasExistingNavItems is true exactly when the list of children is not
\* empty.
C9_DerivedProps ==
    /\ Submenus = {} => subMenuClientId(innerBlocks) = Undefined
    /\ Submenus # {} =>
          subMenuClientId(innerBlocks)
              = Head(innerBlocks[Nearest(Submenus)].innerBlocks).clientId
    /\ hasExistingNavItems(innerBlocks) <=> innerBlocks # << >>

C9_Witness ==
    /\ lastOp.op # "mount"
    /\ Len(innerBlocks) = 2
    /\ Submenus = { 1, 2 }
    /\ Len(innerBlocks[1].innerBlocks) = 2
    /\ subMenuClientId(innerBlocks) = "s2"
    /\ hasExistingNavItems(innerBlocks)

\* C10: right after the effect has run, running it again would leave the four
\* detected colors as they are, and a second run in a row does leave them so;
\* a detection on an existing node calls its color setter once and its
\* background setter once; an effect step changes nothing but the detected
\* colors.
C10_EffectIdempotent ==
    /\ [] ( AfterEffect =>
              /\ ApplySetters(detected, Effect(dom, innerBlocks, platformOS).calls)
                    = detected
              /\ ( platformOS = "web" /\ NavNode # NullNode ) =>
                    /\ CallsTo("setDetectedColor") = 1
                    /\ CallsTo("setDetectedBackgroundColor") = 1
              /\ ( platformOS = "web" /\ SubMenuNode # NullNode ) =>
                    /\ CallsTo("setDetectedOverlayColor") = 1
                    /\ CallsTo("setDetectedOverlayBackgroundColor") = 1 )
    /\ [][ ( lastOp.op = "effect" /\ lastOp'.op = "effect" )
             => detected' = detected ]_vars
    /\ [][ lastOp'.op = "effect" =>
             UNCHANGED << innerBlocks, selectedBlockClientId, attributes, dom,
                          isPlaceholderShown >> ]_vars

C10_Witness ==
    /\ AfterEffect
    /\ ~ effectPending
    /\ NavNode # NullNode
    /\ SubMenuNode # NullNode
    /\ Len(calls) = 4
    /\ detected.detectedBackgroundColor = White
    /\ detected.detectedOverlayBackgroundColor = White
    /\ dom[SubMenuNode].backgroundColor = Transparent

====
